---- MODULE Spec2Model ----
(***************************************************************************)
(* Model of the chunking / embedding-persistence core of the audiobook     *)
(* generator (src/embeddings.py), of its two drivers (src/pipeline.py and  *)
(* the Generate handler of src/frontend.py) and of the query side          *)
(* (src/rag_langchain.py).                                                 *)
(*                                                                         *)
(* A text is a sequence of one-character strings; a word and a segment     *)
(* (chunk) are texts too, so that str.split and ' '.join are conversions   *)
(* that the checks can refute, not identities.                             *)
(***************************************************************************)
EXTENDS Integers, Sequences, FiniteSets, TLC

VARIABLES
    text,        \* split_into_chunks: the argument `text`
    chunk_size,  \* split_into_chunks: the argument `chunk_size`
    overlap,     \* split_into_chunks: the argument `overlap`
    words,       \* the local `words`
    start,       \* the local `start`
    chunks,      \* the local `chunks`
    starts,      \* history: the value of `start` at each chunks.append
    pc,          \* position in split_into_chunks: "idle", "call", "loop", "returned"
    hasST,       \* the module flag HAS_SENTENCE_TRANSFORMERS
    loadable,    \* environment: SentenceTransformer(model_name) succeeds
    encodable,   \* environment: model.encode succeeds
    writable,    \* environment: mkdir and to_csv succeed
    installed,   \* environment: the TTS engines whose import succeeded (HAS_* flags)
    csv,         \* file system: the table at each CSV path, or NoFile
    dirs,        \* file system: the directories that exist
    rpc,         \* position in process_extracted_text
    textPath,    \* process_extracted_text: text_file_path
    csvArg,      \* process_extracted_text: output_csv_path as passed (NoPath for None)
    segments,    \* text_segments
    embeddings,  \* the array returned by model.encode
    outPath,     \* the path handed to save_embeddings_csv
    error,       \* the exception the run ended with, or "none"
    replaced,    \* history: what the last to_csv found at its path
    runs,        \* runs of process_extracted_text started so far
    modelLoads,  \* history: SentenceTransformer(...) calls of this run
    encodeCalls, \* history: model.encode calls of this run
    modelName,   \* generate_embeddings: the argument `model_name`
    csvModel,    \* history: the model that produced the table at each CSV path
    vstore,      \* the vector store collection: the models its vectors come from
    queryModel,  \* the model get_vectorstore embeds queries with, or NoModel
    driver,      \* the driver that is running: "none", "pipeline", "frontend"
    dpc,         \* position in the driver
    opts,        \* the driver's options (command line flags, checkboxes)
    extracted,   \* extracted_text
    enriched,    \* enriched_text (NoDoc for None and for '')
    final,       \* final_text
    results,     \* run_pipeline: the keys of `results`
    synthText,   \* history: the text handed to tts_synthesize
    exitCode,    \* how pipeline main ended
    shown,       \* frontend: the messages shown by st.error / st.warning
    calls,       \* history: the functions the driver has called
    limit,       \* split_text_by_limit: the argument `limit`
    current,     \* split_text_by_limit: the local `current`
    widx,        \* split_text_by_limit: how many words the for loop has taken
    csvText,     \* the characters of the file the last to_csv wrote
    loaded,      \* the rows read back from csvText
    file_ext,    \* extract_text_from_file: file_ext
    xtext,       \* extract_text_from_file and its helpers: the local `text`
    xpc,         \* position in extract_text_from_file / validate_extracted_text
    tried,       \* history: the providers tried, each with how it ended
    min_words,   \* validate_extracted_text: the argument `min_words`
    is_valid     \* validate_extracted_text: the first element of its result

chunkVars == <<text, chunk_size, overlap, words, start, chunks, starts, pc>>

envVars == <<hasST, loadable, encodable, writable, installed>>

runVars == <<csv, dirs, rpc, textPath, csvArg, segments, embeddings, outPath,
             error, replaced, runs, modelLoads, encodeCalls, modelName, csvModel>>

storeVars == <<vstore, queryModel>>

driverVars == <<driver, dpc, opts, extracted, enriched, final, results, synthText, exitCode,
                shown, calls>>

limitVars == <<limit, current, widx>>

csvioVars == <<csvText, loaded>>

extractVars == <<file_ext, xtext, xpc, tried, min_words, is_valid>>

auxVars == <<limitVars, csvioVars, extractVars>>

vars == <<chunkVars, envVars, runVars, storeVars, driverVars, auxVars>>

----------------------------------------------------------------------------
(* Bounds of the model *)

MaxTextLen == 9      \* characters of an input text
MaxChunkSize == 4    \* largest chunk_size drawn
MaxOverlap == 4      \* largest overlap drawn
MaxChunks == 6       \* iterations followed of a loop whose window does not advance
MaxFileLen == 3      \* characters of a text file read by process_extracted_text
MaxRuns == 2         \* runs of process_extracted_text followed

----------------------------------------------------------------------------
(* Texts *)

Chars == {"a", " "}

IsSpace(c) == c = " "

Texts == UNION {[1..n -> Chars] : n \in 0..MaxTextLen}

Min(a, b) == IF a < b THEN a ELSE b

Max(a, b) == IF a > b THEN a ELSE b

\* The index of the last character of the word that starts at index i of t.
WordEnd(t, i) ==
    CHOOSE k \in i..Len(t) :
        /\ \A j \in i..k : ~IsSpace(t[j])
        /\ (k = Len(t) \/ IsSpace(t[k + 1]))

IsWordStart(t, i) == ~IsSpace(t[i]) /\ (i = 1 \/ IsSpace(t[i - 1]))

\* The words of t that start at an index in lo..hi, in order.
RECURSIVE SplitRange(_, _, _)
SplitRange(t, lo, hi) ==
    IF lo > hi THEN <<>>
    ELSE IF lo = hi
         THEN (IF IsWordStart(t, lo) THEN <<SubSeq(t, lo, WordEnd(t, lo))>> ELSE <<>>)
         ELSE LET mid == (lo + hi) \div 2
              IN SplitRange(t, lo, mid) \o SplitRange(t, mid + 1, hi)

\* str.split(): the maximal runs of non-whitespace characters, in order.
Split(t) == SplitRange(t, 1, Len(t))

RECURSIVE JoinRange(_, _, _)
JoinRange(ws, lo, hi) ==
    IF lo > hi THEN <<>>
    ELSE IF lo = hi THEN ws[lo]
         ELSE LET mid == (lo + hi) \div 2
              IN JoinRange(ws, lo, mid) \o <<" ">> \o JoinRange(ws, mid + 1, hi)

\* ' '.join(ws)
Join(ws) == JoinRange(ws, 1, Len(ws))

\* Python's index clamping for a slice bound i of a list of length n.
SliceIndex(i, n) == IF i < 0 THEN Max(i + n, 0) ELSE Min(i, n)

\* A plausible slip: the window one word short (words[lo:hi-1]).
PySliceShort(s, lo, hi) ==
    SubSeq(s, SliceIndex(lo, Len(s)) + 1, SliceIndex(hi, Len(s)) - 1)

\* s[lo:hi] on a Python list (0-based, hi exclusive, negative indexes from the end).
PySlice(s, lo, hi) ==
    SubSeq(s, SliceIndex(lo, Len(s)) + 1, SliceIndex(hi, Len(s)))

----------------------------------------------------------------------------
(* Files, tables and the embedding model *)

\* A path is its parent directory (a sequence of components) and its file
\* name, the name as <<stem, suffix>>.
MkPath(parent, stem, suffix) == [parent |-> parent, name |-> <<stem, suffix>>]

\* Two text files with the same stem under the same grandparent.
TextPaths ==
    { MkPath(<<"data", "extracted">>, "book", ".txt"),
      MkPath(<<"data", "raw">>, "book", ".md") }

\* text_path.parent.parent / "embeddings" / (text_path.stem + "_embeddings.csv")
DefaultCsvPath(tp) ==
    MkPath(SubSeq(tp.parent, 1, Len(tp.parent) - 1) \o <<"embeddings">>,
           tp.name[1], "_embeddings.csv")

\* output_csv_path = None
NoPath == MkPath(<<>>, "", "")

\* An output path given explicitly on the command line.
ExplicitCsvPath == MkPath(<<"out">>, "custom", ".csv")

CsvPaths == {DefaultCsvPath(tp) : tp \in TextPaths} \cup {ExplicitCsvPath}

\* All ancestors of directory d, d included (mkdir(parents=True)).
Ancestors(d) == {SubSeq(d, 1, k) : k \in 1..Len(d)}

\* A text file that does not exist.
NoText == <<"<no file>">>

FileTexts == UNION {[1..n -> Chars] : n \in 0..MaxFileLen}

\* A CSV path with no file.
NoFile == [exists |-> FALSE, header |-> <<>>, rows |-> <<>>]

\* The vector the embedding model returns for one segment.  The model is an
\* external library; its output is represented by two features of the segment.
EncodeSegment(seg) == <<Len(Split(seg)), Len(seg)>>

\* An encoder that gives the vectors back in the opposite order.
EncodeReversed(segs) ==
    [i \in 1..Len(segs) |-> EncodeSegment(segs[Len(segs) + 1 - i])]

\* model.encode(text_segments): one vector per segment, in order.
Encode(segs) == [i \in 1..Len(segs) |-> EncodeSegment(segs[i])]

\* pd.DataFrame({'text': text_segments, 'embedding': embedding_lists}) as it
\* is written by to_csv(index=False): the header and one row per segment.
CsvTable(segs, embs) ==
    [exists |-> TRUE,
     header |-> <<"text", "embedding">>,
     rows |-> [i \in 1..Len(segs) |-> <<segs[i], embs[i]>>]]

\* A plausible slip: to_csv(mode='a'), which appends to the file that is there.
ToCsvAppend(fsys, path, table) ==
    [fsys EXCEPT ![path] =
        IF fsys[path].exists
        THEN [fsys[path] EXCEPT !.rows = fsys[path].rows \o table.rows]
        ELSE table]

\* df.to_csv(output_path, index=False): the default mode 'w' replaces the file.
ToCsv(fsys, path, table) == [fsys EXCEPT ![path] = table]

\* How save_embeddings_csv ends: the DataFrame constructor rejects columns of
\* different lengths, and the last log line reads embedding_lists[0].
SaveOutcome(segs, embs) ==
    IF Len(segs) # Len(embs) THEN "ValueError"
    ELSE IF Len(embs) = 0 THEN "IndexError"
    ELSE "none"

----------------------------------------------------------------------------
(* split_into_chunks *)

ChunkSizes == (-1)..MaxChunkSize

Overlaps == (-1)..MaxOverlap

\* The text of the 900-word scenario: 900 one-letter words, single spaces.
ScenarioText == [i \in 1..(2 * 900 - 1) |-> IF i % 2 = 1 THEN "a" ELSE " "]

\* A plausible slip: the window advances one word too far.
StepPlusOne(cs, ov) == cs - ov + 1

\* A plausible slip: the window advances by chunk_size, ignoring the overlap.
StepNoOverlap(cs, ov) == cs

\* The advance of the window after each chunk.
Step(cs, ov) == cs - ov

\* A plausible slip: the loop condition as start <= len(words).
LoopCondInclusive(st, n) == st <= n

\* The loop condition `start < len(words)`.
LoopCond(st, n) == st < n

\* The default of --model, which is also the model the frontend asks for.
\* A model name is the sequence of the parts of its hub path.
DefaultModel == <<"all-MiniLM-L6-v2">>

NoModel == <<>>

\* The engines of tts.py.
Engines == {"pyttsx3", "gtts", "edge-tts", "coqui"}

\* A document text as the drivers see it: where it comes from, its length and
\* the length of what strip() leaves of it.
Doc(origin, n, stripped) == [origin |-> origin, len |-> n, stripped |-> stripped]

NoDoc == Doc("none", 0, 0)

NoOpts == [list_engines |-> FALSE, enrich |-> FALSE, embed |-> FALSE,
           engine |-> "none", input |-> FALSE]

\* No run of process_extracted_text has been started; no table is stored.
IdleRun ==
    /\ csv = [p \in CsvPaths |-> NoFile]
    /\ dirs = UNION {Ancestors(p.parent) : p \in TextPaths}
    /\ rpc = "idle"
    /\ textPath = NoPath
    /\ csvArg = NoPath
    /\ segments = <<>>
    /\ embeddings = <<>>
    /\ outPath = NoPath
    /\ error = "none"
    /\ replaced = NoFile
    /\ runs = 0
    /\ modelLoads = 0
    /\ encodeCalls = 0
    /\ modelName = NoModel
    /\ csvModel = [p \in CsvPaths |-> NoModel]

\* No query has been made and nothing is in the vector store.
IdleStore ==
    /\ vstore = {}
    /\ queryModel = NoModel

\* Nothing else has been called.
IdleAux ==
    /\ limit = 0
    /\ current = <<>>
    /\ widx = 0
    /\ csvText = <<>>
    /\ loaded = [header |-> <<>>, rows |-> <<>>]
    /\ file_ext = "none"
    /\ xtext = <<>>
    /\ xpc = "idle"
    /\ tried = <<>>
    /\ min_words = 0
    /\ is_valid = "none"

\* No driver is running.
IdleDriver ==
    /\ driver = "none"
    /\ dpc = "idle"
    /\ opts = NoOpts
    /\ extracted = NoDoc
    /\ enriched = NoDoc
    /\ final = NoDoc
    /\ results = {}
    /\ synthText = NoDoc
    /\ exitCode = "none"
    /\ shown = {}
    /\ calls = {}

\* A direct call of split_into_chunks.
Init ==
    /\ \/ /\ text \in Texts
          /\ chunk_size \in ChunkSizes
          /\ overlap \in Overlaps
       \/ /\ text = ScenarioText
          /\ chunk_size = 400
          /\ overlap = 50
    /\ words = <<>>
    /\ start = 0
    /\ chunks = <<>>
    /\ starts = <<>>
    /\ pc = "call"
    /\ hasST = TRUE
    /\ loadable = TRUE
    /\ encodable = TRUE
    /\ writable = TRUE
    /\ installed = Engines
    /\ IdleRun
    /\ IdleStore
    /\ IdleDriver
    /\ IdleAux

\* words = text.split(); chunks = []; start = 0
SplitWords ==
    /\ pc = "call"
    /\ words' = Split(text)
    /\ chunks' = <<>>
    /\ start' = 0
    /\ starts' = <<>>
    /\ pc' = "loop"
    /\ UNCHANGED <<text, chunk_size, overlap, envVars, auxVars, storeVars, driverVars, runVars>>

\* One iteration of `while start < len(words)`.  A loop whose window does not
\* advance never ends; the model follows it for MaxChunks iterations.
LoopIter ==
    /\ pc = "loop"
    /\ LoopCond(start, Len(words))
    /\ Step(chunk_size, overlap) > 0 \/ Len(chunks) < MaxChunks
    /\ LET end == start + chunk_size
           chunk == Join(PySlice(words, start, end))
       IN /\ chunks' = Append(chunks, chunk)
          /\ starts' = Append(starts, start)
    /\ start' = start + Step(chunk_size, overlap)
    /\ UNCHANGED <<text, chunk_size, overlap, words, pc, envVars, auxVars, storeVars,
                   driverVars, runVars>>

\* The loop condition is false: return chunks.
Return ==
    /\ pc = "loop"
    /\ ~LoopCond(start, Len(words))
    /\ pc' = "returned"
    /\ UNCHANGED <<text, chunk_size, overlap, words, start, chunks, starts,
                   envVars, auxVars, storeVars, driverVars, runVars>>

Next == SplitWords \/ LoopIter \/ Return

Spec == Init /\ [][Next]_vars

----------------------------------------------------------------------------
(* process_extracted_text: read the file, generate_embeddings, save the CSV *)

\* The (chunk_size, overlap) pairs runs are started with: the defaults, two
\* small valid configurations, and one whose window does not advance.
RunConfigs == {<<400, 50>>, <<2, 1>>, <<1, 0>>, <<1, 1>>}

\* The file system and the environment before the first run.
InitRun ==
    /\ hasST \in BOOLEAN
    /\ loadable \in (IF hasST THEN BOOLEAN ELSE {FALSE})
    /\ encodable \in (IF loadable THEN BOOLEAN ELSE {FALSE})
    /\ writable \in (IF encodable THEN BOOLEAN ELSE {FALSE})
    /\ text = <<>>
    /\ chunk_size = 400
    /\ overlap = 50
    /\ words = <<>>
    /\ start = 0
    /\ chunks = <<>>
    /\ starts = <<>>
    /\ pc = "idle"
    /\ installed = Engines
    /\ IdleRun
    /\ IdleStore
    /\ IdleDriver
    /\ IdleAux

\* A new invocation: the existence check and the read of the text file, whose
\* content at that moment is `content` (NoText: there is no such file).
StartRun(tp, content, out, cs, ov, m) ==
    /\ rpc = "idle"
    /\ runs < MaxRuns
    /\ runs' = runs + 1
    /\ textPath' = tp
    /\ csvArg' = out
    /\ chunk_size' = cs
    /\ overlap' = ov
    /\ words' = <<>>
    /\ start' = 0
    /\ chunks' = <<>>
    /\ starts' = <<>>
    /\ pc' = "idle"
    /\ segments' = <<>>
    /\ embeddings' = <<>>
    /\ outPath' = NoPath
    /\ replaced' = NoFile
    /\ modelLoads' = 0
    /\ encodeCalls' = 0
    /\ modelName' = m
    /\ IF content = NoText
       THEN /\ rpc' = "raised"
            /\ error' = "FileNotFoundError"
            /\ text' = <<>>
       ELSE /\ rpc' = "generate"
            /\ error' = "none"
            /\ text' = content
    /\ UNCHANGED <<envVars, auxVars, storeVars, driverVars, csv, dirs, csvModel>>

\* generate_embeddings without the test of the import flag: the text is split
\* whether or not the package is there.
LoadModelUnchecked ==
    /\ rpc = "generate"
    /\ rpc' = "split"
    /\ pc' = "call"
    /\ modelLoads' = modelLoads + 1
    /\ UNCHANGED <<text, chunk_size, overlap, words, start, chunks, starts, envVars, auxVars,
                   storeVars, driverVars,
                   csv, dirs, textPath, csvArg, segments, embeddings, outPath,
                   replaced, runs, encodeCalls, error, modelName, csvModel>>

\* generate_embeddings up to the split: the import flag, the model load, and
\* the call of split_into_chunks (split_method = 'chunks').
LoadModel ==
    /\ rpc = "generate"
    /\ IF ~hasST
       THEN /\ rpc' = "raised"
            /\ error' = "RuntimeError"
            /\ pc' = pc
            /\ modelLoads' = modelLoads
       ELSE IF ~loadable
            THEN /\ rpc' = "raised"
                 /\ error' = "ModelLoadError"
                 /\ pc' = pc
                 /\ modelLoads' = modelLoads + 1
            ELSE /\ rpc' = "split"
                 /\ error' = error
                 /\ pc' = "call"
                 /\ modelLoads' = modelLoads + 1
    /\ UNCHANGED <<text, chunk_size, overlap, words, start, chunks, starts, envVars, auxVars,
                   storeVars, driverVars,
                   csv, dirs, textPath, csvArg, segments, embeddings, outPath,
                   replaced, runs, encodeCalls, modelName, csvModel>>

\* model.encode called on the segments collected so far, without waiting for
\* the chunking to finish.
EncodeSegmentsEarly ==
    /\ rpc = "split"
    /\ pc \in {"loop", "returned"}
    /\ segments' = chunks
    /\ encodeCalls' = encodeCalls + 1
    /\ IF encodable
       THEN /\ embeddings' = Encode(chunks)
            /\ rpc' = "save"
            /\ error' = error
       ELSE /\ embeddings' = embeddings
            /\ rpc' = "raised"
            /\ error' = "EncodeError"
    /\ UNCHANGED <<chunkVars, envVars, auxVars, storeVars, driverVars, csv, dirs,
                   textPath, csvArg, outPath,
                   replaced, runs, modelLoads, modelName, csvModel>>

\* An encode failure caught and passed over: the run goes on to the save.
EncodeSegmentsSwallow ==
    /\ rpc = "split"
    /\ pc = "returned"
    /\ segments' = chunks
    /\ encodeCalls' = encodeCalls + 1
    /\ embeddings' = IF encodable THEN Encode(chunks) ELSE <<>>
    /\ rpc' = "save"
    /\ error' = IF encodable THEN error ELSE "EncodeError"
    /\ UNCHANGED <<chunkVars, envVars, auxVars, storeVars, driverVars, csv, dirs,
                   textPath, csvArg, outPath,
                   replaced, runs, modelLoads, modelName, csvModel>>

\* split_into_chunks has returned: model.encode on all segments at once, which
\* returns the whole array or raises.
EncodeSegments ==
    /\ rpc = "split"
    /\ pc = "returned"
    /\ segments' = chunks
    /\ encodeCalls' = encodeCalls + 1
    /\ IF encodable
       THEN /\ embeddings' = Encode(chunks)
            /\ rpc' = "save"
            /\ error' = error
       ELSE /\ embeddings' = embeddings
            /\ rpc' = "raised"
            /\ error' = "EncodeError"
    /\ UNCHANGED <<chunkVars, envVars, auxVars, storeVars, driverVars, csv, dirs,
                   textPath, csvArg, outPath,
                   replaced, runs, modelLoads, modelName, csvModel>>

\* The output path, then save_embeddings_csv as a whole.
SaveCsv ==
    /\ rpc = "save"
    /\ LET path == IF csvArg = NoPath THEN DefaultCsvPath(textPath) ELSE csvArg
           built == SaveOutcome(segments, embeddings)
           outcome == IF built # "ValueError" /\ ~writable THEN "OSError" ELSE built
       IN /\ outPath' = path
          /\ IF outcome \in {"ValueError", "OSError"}
             THEN UNCHANGED <<csv, dirs, replaced, csvModel>>
             ELSE /\ dirs' = dirs \cup Ancestors(path.parent)
                  /\ csv' = ToCsv(csv, path, CsvTable(segments, embeddings))
                  /\ csvModel' = [csvModel EXCEPT ![path] = modelName]
                  /\ replaced' = csv[path]
          /\ error' = outcome
          /\ rpc' = IF outcome = "none" THEN "done" ELSE "raised"
    /\ UNCHANGED <<chunkVars, envVars, auxVars, storeVars, driverVars, textPath, csvArg, segments,
                   embeddings, runs,
                   modelLoads, encodeCalls, modelName>>

\* The run is over (its result printed, or its exception logged and re-raised
\* by main) and the process exits: nothing of the run is left but the files.
Exit ==
    /\ rpc \in {"done", "raised"}
    /\ rpc' = "idle"
    /\ text' = <<>>
    /\ chunk_size' = 400
    /\ overlap' = 50
    /\ words' = <<>>
    /\ start' = 0
    /\ chunks' = <<>>
    /\ starts' = <<>>
    /\ pc' = "idle"
    /\ textPath' = NoPath
    /\ csvArg' = NoPath
    /\ segments' = <<>>
    /\ embeddings' = <<>>
    /\ outPath' = NoPath
    /\ error' = "none"
    /\ replaced' = NoFile
    /\ modelLoads' = 0
    /\ encodeCalls' = 0
    /\ modelName' = NoModel
    /\ UNCHANGED <<envVars, auxVars, storeVars, driverVars, csv, dirs, runs, csvModel>>

\* What main reports of a failed run: logger.error(f"Error: {e}") and the
\* re-raised exception, and nothing else.
Report == [exception |-> error]

NextRun ==
    \/ \E tp \in TextPaths, content \in FileTexts \cup {NoText},
          out \in {NoPath, ExplicitCsvPath}, cfg \in RunConfigs :
           StartRun(tp, content, out, cfg[1], cfg[2], DefaultModel)
    \/ LoadModel
    \/ SplitWords
    \/ LoopIter
    \/ Return
    \/ EncodeSegments
    \/ SaveCsv
    \/ Exit

SpecRun == InitRun /\ [][NextRun]_vars

----------------------------------------------------------------------------
(* The drivers: main and run_pipeline of pipeline.py, and the Generate      *)
(* handler of frontend.py.  extract_text, enrich_text, write_text_file and  *)
(* save_to_vectordb are called by the drivers but defined elsewhere; they   *)
(* are taken by contract: extract_text returns a text or raises,            *)
(* enrich_text returns a text or a null/empty value, the two writers        *)
(* succeed or raise.                                                        *)

\* run_pipeline: the longest text handed to the synthesizer uncut.
max_chars == 5000

\* frontend: the shortest stripped text that is accepted.
MinChars == 10

\* The extracted texts drawn: (length, stripped length) around the two limits.
DocTexts ==
    {Doc("extracted", sh[1], sh[2]) :
        sh \in {<<0, 0>>, <<3, 0>>, <<MinChars - 1, MinChars - 1>>,
                <<MinChars, MinChars>>, <<max_chars, max_chars>>,
                <<max_chars + 1, max_chars + 1>>}}

\* extract_text raises instead of returning a text.
ExtractRaises == Doc("raises", 0, 0)

ExtractOutcomes == DocTexts \cup {ExtractRaises}

EnrichOutcomes == {"None", "empty", "same", "changed"}

\* The value enrich_text returns for the outcome o on the text d.
EnrichResult(d, o) ==
    CASE o = "changed" -> Doc("enriched", d.len, d.stripped)
      [] o = "same" -> d
      [] OTHER -> NoDoc

\* Python truth of a string (None and '' are false).
Truthy(d) == d.len > 0

\* final_text[:max_chars] + "..." when final_text is longer than max_chars.
Truncate(d) ==
    IF d.len > max_chars
    THEN Doc(d.origin, max_chars + 3, Min(d.stripped, max_chars) + 3)
    ELSE d

\* tts.get_recommended_engine; "RuntimeError" when it raises.
get_recommended_engine(inst) ==
    IF "gtts" \in inst THEN "gtts"
    ELSE IF "edge-tts" \in inst THEN "edge-tts"
    ELSE IF "pyttsx3" \in inst THEN "pyttsx3"
    ELSE "RuntimeError"

\* The engines of tts_enhanced.py.
EnhancedEngines == Engines \cup {"bark"}

\* tts_enhanced.get_recommended_engine; "RuntimeError" when it raises.
get_recommended_engine_enhanced(inst) ==
    IF "edge-tts" \in inst THEN "edge-tts"
    ELSE IF "coqui" \in inst THEN "coqui"
    ELSE IF "gtts" \in inst THEN "gtts"
    ELSE IF "pyttsx3" \in inst THEN "pyttsx3"
    ELSE "RuntimeError"

\* How generate_embeddings on a non-blank text followed by
\* save_embeddings_csv ends in this environment.
EmbedOutcome ==
    IF ~hasST THEN "RuntimeError"
    ELSE IF ~loadable THEN "ModelLoadError"
    ELSE IF ~encodable THEN "EncodeError"
    ELSE IF ~writable THEN "OSError"
    ELSE "none"

\* The model get_vectorstore builds its HuggingFaceEmbeddings with.
StoreModel == <<"sentence-transformers", "all-MiniLM-L6-v2">>

\* A main that reports success whatever run_pipeline returned.
ReturnCodeAlwaysZero(res) == "0"

\* main: return 0 if "audio" in results else 1
ReturnCode(res) == IF "audio" \in res THEN "0" ELSE "1"

InitDrivers ==
    /\ hasST \in BOOLEAN
    /\ loadable \in (IF hasST THEN BOOLEAN ELSE {FALSE})
    /\ encodable \in (IF loadable THEN BOOLEAN ELSE {FALSE})
    /\ writable \in (IF encodable THEN BOOLEAN ELSE {FALSE})
    /\ installed \in SUBSET Engines
    /\ text = <<>>
    /\ chunk_size = 400
    /\ overlap = 50
    /\ words = <<>>
    /\ start = 0
    /\ chunks = <<>>
    /\ starts = <<>>
    /\ pc = "idle"
    /\ IdleRun
    /\ IdleStore
    /\ IdleDriver
    /\ IdleAux

\* A main that tests for an installed engine before it looks at --list-engines.
MainStartEnginesFirst(list, enr, eng, inputExists) ==
    /\ driver = "none"
    /\ driver' = "pipeline"
    /\ LET default == IF installed # {} THEN get_recommended_engine(installed) ELSE "gtts"
           choices == IF installed # {} THEN installed ELSE {"gtts"}
           chosen == IF eng = "default" THEN default ELSE eng
       IN /\ opts' = [list_engines |-> list, enrich |-> enr, embed |-> FALSE,
                      engine |-> chosen, input |-> inputExists]
          /\ IF default = "RuntimeError"
             THEN /\ exitCode' = "uncaught"
                  /\ dpc' = "exited"
                  /\ calls' = {}
             ELSE IF chosen \notin choices
             THEN /\ exitCode' = "2"
                  /\ dpc' = "exited"
                  /\ calls' = {}
             ELSE IF installed = {}
             THEN /\ exitCode' = "1"
                  /\ dpc' = "exited"
                  /\ calls' = {}
             ELSE IF list
             THEN /\ exitCode' = "0"
                  /\ dpc' = "exited"
                  /\ calls' = {}
             ELSE IF ~inputExists
             THEN /\ exitCode' = "1"
                  /\ dpc' = "exited"
                  /\ calls' = {"run_pipeline"}
             ELSE /\ exitCode' = "none"
                  /\ dpc' = "extract"
                  /\ calls' = {"run_pipeline"}
    /\ UNCHANGED <<chunkVars, envVars, auxVars, runVars, enriched, storeVars, extracted,
                   final, results,
                   synthText, shown>>

\* pipeline.main up to the call of run_pipeline and its existence check.
\* eng is the value of --engine ("default" when the flag is not given).
MainStart(list, enr, eng, inputExists) ==
    /\ driver = "none"
    /\ driver' = "pipeline"
    /\ LET default == IF installed # {} THEN get_recommended_engine(installed) ELSE "gtts"
           choices == IF installed # {} THEN installed ELSE {"gtts"}
           chosen == IF eng = "default" THEN default ELSE eng
       IN /\ opts' = [list_engines |-> list, enrich |-> enr, embed |-> FALSE,
                      engine |-> chosen, input |-> inputExists]
          /\ IF default = "RuntimeError"
             THEN /\ exitCode' = "uncaught"
                  /\ dpc' = "exited"
                  /\ calls' = {}
             ELSE IF chosen \notin choices
             THEN /\ exitCode' = "2"
                  /\ dpc' = "exited"
                  /\ calls' = {}
             ELSE IF list
             THEN /\ exitCode' = "0"
                  /\ dpc' = "exited"
                  /\ calls' = {}
             ELSE IF installed = {}
             THEN /\ exitCode' = "1"
                  /\ dpc' = "exited"
                  /\ calls' = {}
             ELSE IF ~inputExists
             THEN /\ exitCode' = "1"
                  /\ dpc' = "exited"
                  /\ calls' = {"run_pipeline"}
             ELSE /\ exitCode' = "none"
                  /\ dpc' = "extract"
                  /\ calls' = {"run_pipeline"}
    /\ UNCHANGED <<chunkVars, envVars, auxVars, runVars, enriched, storeVars, extracted,
                   final, results,
                   synthText, shown>>

\* run_pipeline, step 1.  A failure returns the empty results to main.
PipeExtract(outcome) ==
    /\ driver = "pipeline"
    /\ dpc = "extract"
    /\ calls' = calls \cup {"extract_text"}
    /\ IF outcome = ExtractRaises \/ outcome.stripped = 0
       THEN /\ dpc' = "exited"
            /\ exitCode' = ReturnCode(results)
            /\ UNCHANGED <<extracted, results>>
       ELSE /\ dpc' = "enrich"
            /\ extracted' = outcome
            /\ results' = results \cup {"extracted_text"}
            /\ exitCode' = exitCode
    /\ UNCHANGED <<chunkVars, envVars, auxVars, runVars, enriched, storeVars, driver, opts, final,
                   synthText, shown>>

\* run_pipeline, step 2.
PipeEnrich(o) ==
    /\ driver = "pipeline"
    /\ dpc = "enrich"
    /\ dpc' = "synth"
    /\ IF opts.enrich
       THEN LET enriched_text == EnrichResult(extracted, o)
            IN /\ calls' = calls \cup {"enrich_text"}
               /\ enriched' = enriched_text
               /\ IF Truthy(enriched_text) /\ enriched_text # extracted
                  THEN /\ final' = enriched_text
                       /\ results' = results \cup {"enriched_text"}
                  ELSE /\ final' = extracted
                       /\ results' = results
       ELSE /\ final' = extracted
            /\ UNCHANGED <<calls, results, enriched>>
    /\ UNCHANGED <<chunkVars, envVars, auxVars, runVars, storeVars, driver, opts, extracted,
                   synthText, exitCode, shown>>

\* A step 3 that records the audio path before the synthesizer has returned.
PipeSynthRecordFirst(ok) ==
    /\ driver = "pipeline"
    /\ dpc = "synth"
    /\ dpc' = "exited"
    /\ LET returned == ok /\ opts.engine \in installed /\ Truncate(final).stripped > 0
       IN /\ calls' = calls \cup {"tts_synthesize"}
                            \cup (IF returned THEN {"tts_synthesize returned"} ELSE {})
          /\ results' = results \cup {"audio"}
    /\ synthText' = Truncate(final)
    /\ exitCode' = ReturnCode(results')
    /\ UNCHANGED <<chunkVars, envVars, auxVars, runVars, enriched, storeVars, driver, opts,
                   extracted, final, shown>>

\* run_pipeline, step 3, and main's return: 0 if 'audio' is in results.
PipeSynth(ok) ==
    /\ driver = "pipeline"
    /\ dpc = "synth"
    /\ dpc' = "exited"
    /\ LET returned == ok /\ opts.engine \in installed /\ Truncate(final).stripped > 0
       IN /\ calls' = calls \cup {"tts_synthesize"}
                            \cup (IF returned THEN {"tts_synthesize returned"} ELSE {})
          /\ results' = IF returned THEN results \cup {"audio"} ELSE results
    /\ synthText' = Truncate(final)
    /\ exitCode' = ReturnCode(results')
    /\ UNCHANGED <<chunkVars, envVars, auxVars, runVars, enriched, storeVars, driver,
                   opts, extracted,
                   final, shown>>

\* The Generate button of the frontend.
FrontStart(enhance, save) ==
    /\ driver = "none"
    /\ driver' = "frontend"
    /\ dpc' = "extract"
    /\ opts' = [NoOpts EXCEPT !.enrich = enhance, !.embed = save, !.input = TRUE]
    /\ UNCHANGED <<chunkVars, envVars, auxVars, runVars, enriched, storeVars, extracted,
                   final, results,
                   synthText, exitCode, shown, calls>>

\* Step 1: an exception goes to the handler's outer except; a text that is
\* too short is reported and st.stop() ends the script.
FrontExtract(outcome) ==
    /\ driver = "frontend"
    /\ dpc = "extract"
    /\ calls' = calls \cup {"extract_text"}
    /\ IF outcome = ExtractRaises
       THEN /\ dpc' = "exited"
            /\ shown' = shown \cup {"error"}
            /\ extracted' = extracted
       ELSE IF outcome.stripped < MinChars
       THEN /\ dpc' = "exited"
            /\ shown' = shown \cup {"extract_error"}
            /\ extracted' = extracted
       ELSE /\ dpc' = "enrich"
            /\ shown' = shown
            /\ extracted' = outcome
    /\ UNCHANGED <<chunkVars, envVars, auxVars, runVars, enriched, storeVars, driver,
                   opts, final, results,
                   synthText, exitCode>>

\* Step 2.
FrontEnhance(o) ==
    /\ driver = "frontend"
    /\ dpc = "enrich"
    /\ dpc' = "embed"
    /\ IF opts.enrich
       THEN LET enriched_text == EnrichResult(extracted, o)
            IN /\ calls' = calls \cup {"enrich_text"}
               /\ enriched' = enriched_text
               /\ final' = IF Truthy(enriched_text) THEN enriched_text ELSE extracted
       ELSE /\ final' = extracted
            /\ UNCHANGED <<calls, enriched>>
    /\ UNCHANGED <<chunkVars, envVars, auxVars, runVars, storeVars, driver, opts, extracted,
                   results, synthText, exitCode, shown>>

\* Step 3: generate_embeddings, save_embeddings_csv, save_to_vectordb (vdbOk:
\* it does not raise) and the reload of the vector store (reloadOk), which
\* alone is inside a try.  Any other exception goes to the outer except.
FrontEmbed(vdbOk, reloadOk) ==
    /\ driver = "frontend"
    /\ dpc = "embed"
    /\ IF opts.embed
       THEN /\ calls' = calls \cup {"generate_embeddings"}
            /\ IF EmbedOutcome # "none" \/ ~vdbOk
               THEN /\ dpc' = "exited"
                    /\ shown' = shown \cup {"error"}
                    /\ UNCHANGED storeVars
               ELSE /\ dpc' = "audio"
                    /\ vstore' = vstore \cup {DefaultModel}
                    /\ queryModel' = IF reloadOk THEN StoreModel ELSE NoModel
                    /\ shown' = IF reloadOk THEN shown ELSE shown \cup {"reload_warning"}
       ELSE /\ dpc' = "audio"
            /\ UNCHANGED <<calls, shown, storeVars>>
    /\ UNCHANGED <<chunkVars, envVars, auxVars, runVars, enriched, driver, opts,
                   extracted, final, results,
                   synthText, exitCode>>

\* Step 4.  base_name is bound in step 3 only: without it the file name
\* cannot be built and the NameError goes to the outer except.
FrontAudio(ok) ==
    /\ driver = "frontend"
    /\ dpc = "audio"
    /\ dpc' = "exited"
    /\ IF ~opts.embed
       THEN /\ shown' = shown \cup {"error"}
            /\ UNCHANGED <<calls, synthText, results>>
       ELSE /\ synthText' = final
            /\ IF ok /\ "edge-tts" \in installed
               THEN /\ calls' = calls \cup {"tts_synthesize", "tts_synthesize returned"}
                    /\ results' = results \cup {"audio"}
                    /\ shown' = shown
               ELSE /\ calls' = calls \cup {"tts_synthesize"}
                    /\ results' = results
                    /\ shown' = shown \cup {"tts_error", "audio_failed"}
    /\ UNCHANGED <<chunkVars, envVars, auxVars, runVars, enriched, storeVars, driver,
                   opts, extracted,
                   final, exitCode>>

\* The driver is over: the process exits, or the script run ends.
DriverExit ==
    /\ dpc = "exited"
    /\ driver' = "none"
    /\ dpc' = "idle"
    /\ opts' = NoOpts
    /\ extracted' = NoDoc
    /\ final' = NoDoc
    /\ results' = {}
    /\ synthText' = NoDoc
    /\ exitCode' = "none"
    /\ shown' = {}
    /\ calls' = {}
    /\ enriched' = NoDoc
    /\ UNCHANGED <<chunkVars, envVars, auxVars, runVars, storeVars>>

NextDrivers ==
    \/ \E list \in BOOLEAN, enr \in BOOLEAN, eng \in Engines \cup {"default"},
          inputExists \in BOOLEAN : MainStart(list, enr, eng, inputExists)
    \/ \E outcome \in ExtractOutcomes : PipeExtract(outcome)
    \/ \E o \in EnrichOutcomes : PipeEnrich(o)
    \/ \E ok \in BOOLEAN : PipeSynth(ok)
    \/ \E enhance \in BOOLEAN, save \in BOOLEAN : FrontStart(enhance, save)
    \/ \E outcome \in ExtractOutcomes : FrontExtract(outcome)
    \/ \E o \in EnrichOutcomes : FrontEnhance(o)
    \/ \E vdbOk \in BOOLEAN, reloadOk \in BOOLEAN : FrontEmbed(vdbOk, reloadOk)
    \/ \E ok \in BOOLEAN : FrontAudio(ok)
    \/ DriverExit

SpecDrivers == InitDrivers /\ [][NextDrivers]_vars

----------------------------------------------------------------------------
(* The embeddings CLI with a model of the caller's choice, the load of a    *)
(* table into the vector store, and get_vectorstore.                        *)

\* Values of --model: the default and another sentence-transformers model.
ModelNames == {DefaultModel, <<"all-mpnet-base-v2">>}

\* The hub path a model name stands for: a bare name is looked up under
\* sentence-transformers/.
Canonical(m) == IF Len(m) = 1 THEN <<"sentence-transformers">> \o m ELSE m

\* The text files the CLI is run on here.
StoreTexts == {<<"a">>, <<"a", " ", "a">>}

InitStore ==
    /\ hasST = TRUE
    /\ loadable = TRUE
    /\ encodable = TRUE
    /\ writable = TRUE
    /\ installed = Engines
    /\ text = <<>>
    /\ chunk_size = 400
    /\ overlap = 50
    /\ words = <<>>
    /\ start = 0
    /\ chunks = <<>>
    /\ starts = <<>>
    /\ pc = "idle"
    /\ IdleRun
    /\ IdleStore
    /\ IdleDriver
    /\ IdleAux

\* save_to_vectordb(csv_path, ...): the records of the table at p become
\* entries of the collection, with the vectors the table holds.
SaveToVectordb(p) ==
    /\ rpc = "idle"
    /\ csv[p].exists
    /\ csv[p].rows # <<>>
    /\ vstore' = vstore \cup {csvModel[p]}
    /\ UNCHANGED <<chunkVars, envVars, auxVars, runVars, driverVars, queryModel>>

\* get_vectorstore(): the collection opened with its fixed embedding function.
GetVectorstore ==
    /\ rpc = "idle"
    /\ queryModel' = StoreModel
    /\ UNCHANGED <<chunkVars, envVars, auxVars, runVars, driverVars, vstore>>

NextStore ==
    \/ \E tp \in TextPaths, content \in StoreTexts, m \in ModelNames :
           StartRun(tp, content, NoPath, 1, 0, m)
    \/ LoadModel
    \/ SplitWords
    \/ LoopIter
    \/ Return
    \/ EncodeSegments
    \/ SaveCsv
    \/ Exit
    \/ \E p \in CsvPaths : SaveToVectordb(p)
    \/ GetVectorstore

SpecStore == InitStore /\ [][NextStore]_vars

----------------------------------------------------------------------------
(* Properties of split_into_chunks *)

\* The contract's precondition on the configuration.
ValidConfig == chunk_size >= 1 /\ 0 <= overlap /\ overlap < chunk_size

IsBlank(t) == \A i \in 1..Len(t) : IsSpace(t[i])

\* The words of the i-th returned segment.
ChunkWords(i) == Split(chunks[i])

\* The first segment in full, every later one without its first ov words,
\* concatenated in segment order.
RECURSIVE NonOverlapConcat(_, _, _)
NonOverlapConcat(cs, ov, i) ==
    IF i > Len(cs) THEN <<>>
    ELSE LET w == Split(cs[i])
         IN (IF i = 1 THEN w ELSE PySlice(w, ov, Len(w)))
                \o NonOverlapConcat(cs, ov, i + 1)

\* C1: a text of 1..chunk_size words, under a valid configuration, comes back
\* as exactly one segment, its words joined by single spaces.
C1_ShortTextIsOneSegment ==
    (pc = "returned" /\ ValidConfig /\ Len(words) >= 1 /\ Len(words) <= chunk_size)
        => chunks = <<Join(Split(text))>>

\* C2: under a valid configuration the first segment in full followed by every
\* later segment without its first `overlap` words is exactly the word
\* sequence of the text.
C2_NonOverlapRegionsReconstruct ==
    (pc = "returned" /\ ValidConfig)
        => NonOverlapConcat(chunks, overlap, 1) = Split(text)

C2_Witness ==
    /\ pc = "returned"
    /\ ValidConfig
    /\ overlap >= 1
    /\ Len(chunks) >= 3
    /\ \E i \in 1..Len(chunks) : Len(ChunkWords(i)) = chunk_size

\* C3: under a valid configuration, a segment that contains the last word of
\* the text is the last segment emitted.
C3_TailWindowIsFinal ==
    (pc \in {"loop", "returned"} /\ ValidConfig)
        => \A i \in 1..(Len(chunks) - 1) : starts[i] + chunk_size < Len(words)

\* C4: under a valid configuration the segments cover every word position, and
\* consecutive segments share exactly `overlap` words (the last words of the
\* earlier one are the first words of the later one); only the final segment
\* may be shorter.
C4_CoverAndExactOverlap ==
    (pc = "returned" /\ ValidConfig)
        => LET n == Len(chunks)
               cw == [i \in 1..n |-> ChunkWords(i)]
           IN /\ \A p \in 0..(Len(words) - 1) :
                     \E i \in 1..n :
                         /\ starts[i] <= p
                         /\ p < starts[i] + Len(cw[i])
                         /\ cw[i][p - starts[i] + 1] = words[p + 1]
              /\ \A i \in 1..(n - 1) :
                     LET a == cw[i]
                         b == cw[i + 1]
                         k == IF i + 1 = n THEN Min(overlap, Len(b)) ELSE overlap
                     IN /\ Len(a) >= k
                        /\ Len(b) >= k
                        /\ SubSeq(a, Len(a) - k + 1, Len(a)) = SubSeq(b, 1, k)
                        /\ (i + 1 < n => starts[i] + Len(a) - starts[i + 1] = overlap)

\* C5: with overlap >= chunk_size >= 1 every iteration of the loop advances
\* the window by exactly one word.
C5_DegenerateStepIsOne ==
    [][(pc = "loop" /\ start < Len(words) /\ chunk_size >= 1 /\ overlap >= chunk_size)
           => start' = start + 1]_vars

\* C6: a call with chunk_size <= 0 never returns a segment list.  (Stated for
\* texts with at least one word; for a blank text C8 asks for the opposite.)
C6_NonPositiveChunkSizeNeverReturns ==
    (chunk_size <= 0 /\ ~IsBlank(text)) => pc # "returned"

\* The word counts of the returned segments.
WordCounts == [i \in 1..Len(chunks) |-> Len(ChunkWords(i))]

IsScenario == Len(words) = 900 /\ chunk_size = 400 /\ overlap = 50

\* C7 as stated: 900 words, chunk_size 400, overlap 50 give 3 segments of
\* 400, 400 and 100 words starting at word offsets 0, 350 and 700.
C7_ScenarioAsStated ==
    (pc = "returned" /\ IsScenario)
        => /\ Len(chunks) = 3
           /\ WordCounts = <<400, 400, 100>>
           /\ starts = <<0, 350, 700>>

\* C7 amended: the third segment, starting at word 700 of 900, has 200 words.
C7_Scenario ==
    (pc = "returned" /\ IsScenario)
        => /\ Len(chunks) = 3
           /\ WordCounts = <<400, 400, 200>>
           /\ starts = <<0, 350, 700>>
           /\ \A i \in 1..3 :
                  chunks[i] = Join(SubSeq(words, starts[i] + 1, starts[i] + WordCounts[i]))

C7_Witness == pc = "returned" /\ IsScenario /\ text = ScenarioText

\* C8: for an empty or whitespace-only text the loop body never runs and the
\* empty sequence is returned, whatever chunk_size and overlap are.
C8_BlankTextGivesNoSegments ==
    IsBlank(text)
        => /\ chunks = <<>>
           /\ (pc = "loop" => ~(start < Len(words)))
           /\ (pc = "returned" => chunks = <<>>)

C8_Witness ==
    /\ pc = "returned"
    /\ IsBlank(text)
    /\ Len(text) >= 2
    /\ overlap >= chunk_size
    /\ chunks = <<>>

----------------------------------------------------------------------------
(* Properties of save_embeddings_csv and of the stored tables *)

\* The table to_csv writes for no rows: the header line only.
HeaderOnlyTable == [exists |-> TRUE, header |-> <<"text", "embedding">>, rows |-> <<>>]

\* save_embeddings_csv has been called in this run.
SaveCalled == rpc \in {"done", "raised"} /\ outPath # NoPath

\* C9: save_embeddings_csv called with no segments and no embeddings leaves a
\* header-only table at the output path and returns normally.
C9_EmptySaveReturnsNormally ==
    (SaveCalled /\ segments = <<>> /\ embeddings = <<>>)
        => /\ csv[outPath] = HeaderOnlyTable
           /\ rpc = "done"
           /\ error = "none"

----------------------------------------------------------------------------
(* Properties of a run of process_extracted_text *)

\* to_csv of this run has written its table.
Written == outPath # NoPath /\ error \in {"none", "IndexError"}

\* The last state of the run's state machine that has been completed.
Stage ==
    IF Written THEN "PERSISTED"
    ELSE IF rpc = "save" \/ outPath # NoPath THEN "EMBEDDED"
    ELSE IF pc = "returned" THEN "CHUNKED"
    ELSE "EMPTY"

StageNum ==
    CASE Stage = "EMPTY" -> 0
      [] Stage = "CHUNKED" -> 1
      [] Stage = "EMBEDDED" -> 2
      [] Stage = "PERSISTED" -> 3

\* C11: a run goes EMPTY -> CHUNKED -> EMBEDDED -> PERSISTED one state at a
\* time; model.encode is called only when split_into_chunks has returned, and
\* on all of its segments; the table is written only when there is one
\* embedding for each of those segments.
C11_StagesInOrder ==
    [][/\ \/ rpc = "idle"
          \/ rpc' = "idle"
          \/ StageNum' \in {StageNum, StageNum + 1}
       /\ encodeCalls' > encodeCalls
             => /\ pc = "returned"
                /\ Stage = "CHUNKED"
                /\ segments' = chunks
       /\ (~Written /\ Written')
             => /\ Stage = "EMBEDDED"
                /\ segments = chunks
                /\ Len(embeddings) = Len(segments)
                /\ csv'[outPath'] = CsvTable(segments, embeddings)
      ]_vars

C11_Witness ==
    /\ rpc = "done"
    /\ Stage = "PERSISTED"
    /\ Len(segments) >= 2
    /\ Len(csv[outPath].rows) = Len(segments)

\* The state a run has completed when the given exception leaves it, by the
\* place the exception is raised at.
StageOfError(e) ==
    CASE e \in {"FileNotFoundError", "RuntimeError", "ModelLoadError"} -> "EMPTY"
      [] e = "EncodeError" -> "CHUNKED"
      [] e \in {"ValueError", "OSError"} -> "EMBEDDED"
      [] e = "IndexError" -> "PERSISTED"

GenerateReturned == rpc \in {"save", "done"} \/ (rpc = "raised" /\ outPath # NoPath)

\* C20: generate_embeddings returns the segments together with one embedding
\* for each, in the order of the segments and all of one length, from a
\* model loaded once and called once on the whole list.
C20_OneEmbeddingPerSegment ==
    GenerateReturned
        => /\ segments = chunks
           /\ Len(embeddings) = Len(segments)
           /\ \A i \in 1..Len(segments) : embeddings[i] = EncodeSegment(segments[i])
           /\ \A i, j \in 1..Len(embeddings) : Len(embeddings[i]) = Len(embeddings[j])
           /\ modelLoads = 1
           /\ encodeCalls = 1

C20_Witness ==
    /\ rpc = "save"
    /\ Len(segments) >= 2
    /\ embeddings[1] # embeddings[2]

\* The exceptions of generate_embeddings that say the model cannot be used.
ModelUnavailable == {"RuntimeError", "ModelLoadError"}

\* C13 as stated: when generate_embeddings fails because the model is not
\* installed or cannot be loaded, the segments of the text have been computed
\* and are there when the failure is reported.
C13_SegmentsSurviveModelFailure ==
    (rpc = "raised" /\ error \in ModelUnavailable)
        => /\ pc = "returned"
           /\ ~IsBlank(text) => chunks # <<>>

\* C13 amended: a missing package raises RuntimeError and a failed load raises
\* the loader's exception, both before split_into_chunks is called: no word
\* list and no segment exists when the failure is reported.
C13_ModelCheckedBeforeChunking ==
    (rpc \notin {"idle", "generate"} /\ error # "FileNotFoundError" /\ ~(hasST /\ loadable))
        => /\ rpc = "raised"
           /\ error = (IF hasST THEN "ModelLoadError" ELSE "RuntimeError")
           /\ pc = "idle"
           /\ words = <<>>
           /\ chunks = <<>>
           /\ segments = <<>>
           /\ encodeCalls = 0

C13_Witness ==
    /\ rpc = "raised"
    /\ error = "RuntimeError"
    /\ ~hasST
    /\ Len(Split(text)) >= 2
    /\ chunks = <<>>

----------------------------------------------------------------------------
(* Properties of the drivers *)

\* The frontend handler has ended after calling generate_embeddings where
\* the embedding model cannot be used.
EmbeddingLost ==
    /\ driver = "frontend"
    /\ dpc = "exited"
    /\ opts.embed
    /\ "generate_embeddings" \in calls
    /\ ~(hasST /\ loadable)

\* C14: in the frontend, with "Save for Q&A" on and the embedding model
\* unusable, only the embedding stage is lost: the failure is shown and
\* tts_synthesize is still called on the text.
C14_EmbeddingFailureKeepsAudio ==
    EmbeddingLost
        => /\ shown # {}
           /\ "tts_synthesize" \in calls
           /\ synthText = final

\* pipeline.main has returned an exit code.
MainReturned == driver = "pipeline" /\ dpc = "exited" /\ exitCode \in {"0", "1"}

\* enrich_text was called and gave back None or ''.
EnrichFailed == "enrich_text" \in calls /\ ~Truthy(enriched)

\* tts_synthesize was called and did not produce the audio.
SynthFailed == "tts_synthesize" \in calls /\ "audio" \notin results

\* extract_text was called and gave no usable text.
ExtractFailed == "extract_text" \in calls /\ extracted = NoDoc

\* C15 as stated: main returns 0 only when audio was produced, and 1 whenever
\* the input is missing or extraction, enrichment (when enabled) or synthesis
\* fails.
C15_ZeroOnlyWithAudio ==
    MainReturned
        => /\ exitCode = "0" => "audio" \in results
           /\ ("run_pipeline" \in calls
                 /\ (~opts.input \/ ExtractFailed \/ EnrichFailed \/ SynthFailed))
                => exitCode = "1"

\* C15 amended: without --list-engines main returns 0 exactly when audio was
\* produced, and 1 when no engine is installed, the input is missing, or
\* extraction or synthesis fails; with --list-engines it returns 0 and runs
\* nothing.  A failed enrichment by itself does not change the exit code.
C15_ExitCodeFollowsAudio ==
    MainReturned
        => IF opts.list_engines
           THEN exitCode = "0" /\ calls = {}
           ELSE /\ exitCode = "0" <=> "audio" \in results
                /\ exitCode = "1"
                      <=> \/ installed = {}
                          \/ "run_pipeline" \in calls
                               /\ (~opts.input \/ ExtractFailed \/ SynthFailed)

C15_Witness ==
    /\ MainReturned
    /\ exitCode = "0"
    /\ opts.enrich
    /\ EnrichFailed
    /\ "audio" \in results
    /\ synthText = extracted

\* pipeline.main has ended, in an environment with no TTS engine.
EndedWithoutEngines == driver = "pipeline" /\ dpc = "exited" /\ installed = {}

\* C16 as stated: with no TTS engine installed every invocation of main
\* returns 1 and run_pipeline is not called, --list-engines or not.
C16_NoEngineAlwaysOne ==
    EndedWithoutEngines
        => /\ exitCode = "1"
           /\ "run_pipeline" \notin calls

\* C16 amended: with no TTS engine installed run_pipeline is never called;
\* main returns 1, except that --list-engines returns 0 and an --engine other
\* than gtts is refused by the argument parser (exit status 2).
C16_NoEngineNeverRunsPipeline ==
    EndedWithoutEngines
        => /\ calls = {}
           /\ results = {}
           /\ exitCode = (IF opts.engine # "gtts" THEN "2"
                           ELSE IF opts.list_engines THEN "0"
                           ELSE "1")

C16_Witness ==
    /\ EndedWithoutEngines
    /\ opts.list_engines
    /\ opts.input
    /\ exitCode = "0"

\* C17: in both drivers, when enrichment is on and enrich_text gives back
\* None or '', the run goes on: tts_synthesize is called, and the text it is
\* given is the extracted text (cut at max_chars by run_pipeline).
C17_EnrichFailureFallsBack ==
    (dpc = "exited" /\ opts.enrich /\ EnrichFailed)
        => /\ final = extracted
           /\ "tts_synthesize" \in calls
           /\ synthText \in {extracted, Truncate(extracted)}

----------------------------------------------------------------------------
(* Properties of queries on the persisted embeddings *)

\* C19: queries are embedded with the model that produced the persisted
\* embeddings: whatever model name a table was written with, and whatever
\* the vector store was filled from, get_vectorstore uses that same model.
C19_QueryModelIsWriteModel ==
    queryModel # NoModel
        => /\ \A p \in CsvPaths :
                  csv[p].exists => Canonical(csvModel[p]) = queryModel
           /\ \A m \in vstore : Canonical(m) = queryModel

----------------------------------------------------------------------------
(* The closed form of split_into_chunks *)

\* ceil(n / d) for n >= 0, d >= 1.
CeilDiv(n, d) == (n + d - 1) \div d

\* Segment number i (from 0) as the closed form gives it: the words at
\* positions [i * step, min(i * step + chunk_size, n)), joined.
ClosedFormChunk(i) ==
    LET step == chunk_size - overlap
        n == Len(words)
    IN Join(SubSeq(words, i * step + 1, Min(i * step + chunk_size, n)))

----------------------------------------------------------------------------
(* Further properties of the drivers *)

\* C28: the text run_pipeline hands to tts_synthesize has at most max_chars
\* characters, however long the extracted or enriched text is.
C28_SynthTextWithinMaxChars ==
    (driver = "pipeline" /\ "tts_synthesize" \in calls)
        => synthText.len <= max_chars

\* C25: whenever some engine is reported available, get_recommended_engine
\* returns an engine that is reported available, in tts.py and (with or
\* without bark) in tts_enhanced.py, and pipeline main gets past the
\* computation of its default --engine.
C25_RecommendedIsAvailable ==
    (driver = "pipeline" /\ installed # {})
        => /\ exitCode # "uncaught"
           /\ get_recommended_engine(installed) \in installed
           /\ \A extra \in SUBSET (EnhancedEngines \ Engines) :
                 get_recommended_engine_enhanced(installed \cup extra)
                     \in installed \cup extra

-----------------------------------------------------------------------------
\* audio_gen_code.py: split_text_by_limit(text, limit), the splitter that
\* generate_audio applies to every paragraph before synthesis.

MaxLimit == 4

Limits == 0..MaxLimit

\* A plausible slip: the separator is not counted.
FitsNoSeparator(cur, word, lim) == Len(cur) + Len(word) <= lim

\* len(current) + len(word) + 1 <= limit
Fits(cur, word, lim) == Len(cur) + Len(word) + 1 <= lim

\* current += (" " if current else "") + word
Extend(cur, word) == cur \o (IF cur # <<>> THEN <<" ">> ELSE <<>>) \o word

InitLimit ==
    /\ text \in Texts
    /\ limit \in Limits
    /\ pc = "limit_call"
    /\ words = <<>>
    /\ chunks = <<>>
    /\ current = <<>>
    /\ widx = 0
    /\ chunk_size = 400
    /\ overlap = 50
    /\ start = 0
    /\ starts = <<>>
    /\ hasST = TRUE
    /\ loadable = TRUE
    /\ encodable = TRUE
    /\ writable = TRUE
    /\ installed = Engines
    /\ csvText = <<>>
    /\ loaded = [header |-> <<>>, rows |-> <<>>]
    /\ file_ext = "none"
    /\ xtext = <<>>
    /\ xpc = "idle"
    /\ tried = <<>>
    /\ min_words = 0
    /\ is_valid = "none"
    /\ IdleRun
    /\ IdleStore
    /\ IdleDriver

\* words = text.split(); chunks, current = [], ""
LimitSplit ==
    /\ pc = "limit_call"
    /\ words' = Split(text)
    /\ chunks' = <<>>
    /\ current' = <<>>
    /\ widx' = 0
    /\ pc' = "limit_loop"
    /\ UNCHANGED <<text, limit, chunk_size, overlap, start, starts, envVars,
                   csvioVars, extractVars, runVars, storeVars, driverVars>>

\* One iteration of `for word in words`.
LimitIter ==
    /\ pc = "limit_loop"
    /\ widx < Len(words)
    /\ LET word == words[widx + 1]
       IN IF Fits(current, word, limit)
          THEN /\ current' = Extend(current, word)
               /\ chunks' = chunks
          ELSE /\ chunks' = Append(chunks, current)
               /\ current' = word
    /\ widx' = widx + 1
    /\ UNCHANGED <<text, limit, words, pc, chunk_size, overlap, start, starts,
                   envVars, csvioVars, extractVars, runVars, storeVars, driverVars>>

\* if current: chunks.append(current); return chunks
LimitReturn ==
    /\ pc = "limit_loop"
    /\ widx = Len(words)
    /\ chunks' = IF current # <<>> THEN Append(chunks, current) ELSE chunks
    /\ pc' = "limit_returned"
    /\ UNCHANGED <<text, limit, words, current, widx, chunk_size, overlap, start,
                   starts, envVars, csvioVars, extractVars, runVars, storeVars,
                   driverVars>>

NextLimit == LimitSplit \/ LimitIter \/ LimitReturn

SpecLimit == InitLimit /\ [][NextLimit]_vars

\* The words of the sub-chunks cs[i..], in order.
RECURSIVE WordsOf(_, _)
WordsOf(cs, i) == IF i > Len(cs) THEN <<>> ELSE Split(cs[i]) \o WordsOf(cs, i + 1)

WordsFitLimit == \A i \in 1..Len(words) : Len(words[i]) <= limit

\* C24: when every word of the text has at most `limit` characters, every
\* sub-chunk split_text_by_limit returns has at most `limit` characters, and
\* every sub-chunk is made of whole words of the text, taken in order.
C24_SubChunksWithinLimit ==
    pc = "limit_returned"
        => /\ WordsFitLimit => \A i \in 1..Len(chunks) : Len(chunks[i]) <= limit
           /\ WordsOf(chunks, 1) = words
           /\ \A i \in 1..Len(chunks) : chunks[i] = Join(Split(chunks[i]))

\* A text of several words, each within the limit, that needed three
\* sub-chunks, one of them of exactly `limit` characters and of two words.
C24_Witness ==
    /\ pc = "limit_returned"
    /\ WordsFitLimit
    /\ Len(words) >= 4
    /\ Len(chunks) >= 3
    /\ \E i \in 1..Len(chunks) : Len(chunks[i]) = limit /\ Len(Split(chunks[i])) = 2

\* C29: for limit >= 1, split_text_by_limit returns no empty sub-chunk, and
\* the words of the result in order are the words of the text.
C29_NoEmptySubChunk ==
    (pc = "limit_returned" /\ limit >= 1)
        => /\ \A i \in 1..Len(chunks) : chunks[i] # <<>>
           /\ WordsOf(chunks, 1) = words

-----------------------------------------------------------------------------
\* text_extraction/extractor.py.  A text is a sequence of tokens: words,
\* punctuation marks, " ", "\n", and the five emoji the messages begin with,
\* written as their code points.  The tokens are chosen so that none of the
\* literals of error_patterns occurs inside a longer token; a regular
\* expression's search over characters is then a search over tokens.

MaxPages == 2

MaxMinWords == 5

Prohibited == "U+1F6AB"

PageFacingUp == "U+1F4C4"

Clipboard == "U+1F4CB"

Magnifier == "U+1F50D"

EmptyMailbox == "U+1F4ED"

IsWsTok(tok) == tok \in {" ", "\n"}

NonWordTokens ==
    {Prohibited, PageFacingUp, Clipboard, Magnifier, EmptyMailbox,
     ":", ".", "-", "---", " ", "\n"}

\* str.lower() of a token.
Lower(tok) ==
    CASE tok = "No" -> "no"
      [] tok = "Unsupported" -> "unsupported"
      [] tok = "Extraction" -> "extraction"
      [] tok = "TXT" -> "txt"
      [] tok = "PDF" -> "pdf"
      [] tok = "Could" -> "could"
      [] tok = "Install" -> "install"
      [] tok = "Or" -> "or"
      [] tok = "PyPDF2" -> "pypdf2"
      [] tok = "Tesseract" -> "tesseract"
      [] tok = "OCR" -> "ocr"
      [] tok = "Error" -> "error"
      [] tok = "Page" -> "page"
      [] OTHER -> tok

\* sum(c.isalpha() for c in tok)
AlphaCount(tok) ==
    CASE tok \in NonWordTokens \cup {"1", "2", "3", "4", "5"} -> 0
      [] tok \in {"No", "Or", "in"} -> 2
      [] tok \in {"TXT", "not", "pip", "OCR", "and", "ocr", "exe"} -> 3
      [] tok \in {"file", "type", "text", "from", "docx", "Page", "oops"} -> 4
      [] tok \in {"error", "Error", "Could", "PyPDF2", "image", "after", "lorem", "ipsum"} -> 5
      [] tok \in {"decode", "python", "trying"} -> 6
      [] tok \in {"reading", "Install", "install", "docx2txt"} -> 7
      [] tok \in {"detected", "multiple"} -> 8
      [] tok \in {"extracted", "Tesseract", "tesseract", "available"} -> 9
      [] tok \in {"Extraction", "pdfplumber", "strategies"} -> 10
      [] tok \in {"Unsupported", "pytesseract"} -> 11

\* The words ws with single spaces between them.
Sp(ws) == [i \in 1..(2 * Len(ws) - 1) |-> IF i % 2 = 1 THEN ws[(i + 1) \div 2] ELSE " "]

\* str.strip()
Strip(t) ==
    LET ink == {i \in 1..Len(t) : ~IsWsTok(t[i])}
    IN IF ink = {} THEN <<>>
       ELSE SubSeq(t, CHOOSE i \in ink : \A j \in ink : i <= j,
                      CHOOSE i \in ink : \A j \in ink : i >= j)

\* str(e) of a caught exception.
ExcTexts == {<<>>, <<"oops">>}

\* What a text file, a document or an image can hold.
LoremText == <<"\n", " ">> \o Sp(<<"lorem", "ipsum", "lorem", "ipsum", "lorem", "ipsum">>) \o <<"\n">>

ContentTexts == {<<>>, <<"\n">>, <<"lorem">>, LoremText}

FileExts == {"txt", "pdf", "docx", "jpg", "jpeg", "png", "bmp", "exe", ""}

UnsupportedMsg(ext) ==
    Sp(<<Prohibited, "Unsupported", "file", "type">>) \o <<":", " ">>
        \o (IF ext = "" THEN <<>> ELSE <<ext>>)

NoTextExtractedMsg == Sp(<<EmptyMailbox, "No", "text", "extracted", "from", "file">>) \o <<".">>

ExtractionErrorMsg(e) == Sp(<<Prohibited, "Extraction", "error">>) \o <<":", " ">> \o e

TxtDecodeMsg ==
    Sp(<<Prohibited, "TXT", "reading", "error">>) \o <<":", " ">>
        \o Sp(<<"Could", "not", "decode", "file">>)

TxtErrorMsg(e) == Sp(<<Prohibited, "TXT", "reading", "error">>) \o <<":", " ">> \o e

PdfGuidance ==
    Sp(<<PageFacingUp, "Install", "pdfplumber">>) \o <<":", " ">>
        \o Sp(<<"pip", "install", "pdfplumber">>) \o <<"\n">>
        \o Sp(<<"Or", "install", "PyPDF2">>) \o <<":", " ">>
        \o Sp(<<"pip", "install", "PyPDF2">>)

DocxGuidance ==
    Sp(<<Clipboard, "Install">>) \o <<" ", "python", "-", "docx", ":", " ">>
        \o Sp(<<"pip", "install">>) \o <<" ", "python", "-", "docx", "\n">>
        \o Sp(<<"Or", "install", "docx2txt">>) \o <<":", " ">>
        \o Sp(<<"pip", "install", "docx2txt">>)

OcrUnavailableMsg ==
    Sp(<<Magnifier, "Tesseract", "OCR", "not", "available">>) \o <<".", " ", "Install", ":", " ">>
        \o Sp(<<"pip", "install", "pytesseract", "and", "install">>)
        \o <<" ", "tesseract", "-", "ocr">>

NoTextDetectedMsg ==
    Sp(<<Magnifier, "No", "text", "detected", "in", "image", "after", "trying",
         "multiple", "OCR", "strategies">>)

OcrErrorMsg(e) == Sp(<<Prohibited, "OCR", "Error">>) \o <<":", " ">> \o e

\* f"--- Page {k} ---\n{page_text}\n\n"
PageNum == <<"1", "2", "3", "4", "5">>

PageBody == Sp(<<"lorem", "ipsum">>)

PageEntry(k) == Sp(<<"---", "Page", PageNum[k], "---">>) \o <<"\n">> \o PageBody \o <<"\n", "\n">>

\* The entries of the pages 1..n that have text, in page order.
RECURSIVE PagesText(_, _)
PagesText(withText, n) ==
    IF n = 0 THEN <<>>
    ELSE PagesText(withText, n - 1) \o (IF n \in withText THEN PageEntry(n) ELSE <<>>)

\* How one PDF library fares on the file: not installed; or it goes through
\* `read` pages, of which those in withText have text, and then either is at
\* the end of the document or raises.
PdfOutcomes ==
    {[avail |-> FALSE, raises |-> FALSE, read |-> 0, withText |-> {}]}
    \cup {[avail |-> TRUE, raises |-> r, read |-> n, withText |-> S] :
            r \in BOOLEAN, n \in 0..MaxPages, S \in SUBSET (1..MaxPages)}

Attempt(p, o, y) == [provider |-> p, outcome |-> o, yield |-> y]

InitExtract ==
    /\ text = <<>>
    /\ chunk_size = 400
    /\ overlap = 50
    /\ words = <<>>
    /\ start = 0
    /\ chunks = <<>>
    /\ starts = <<>>
    /\ pc = "idle"
    /\ hasST = TRUE
    /\ loadable = TRUE
    /\ encodable = TRUE
    /\ writable = TRUE
    /\ installed = Engines
    /\ IdleRun
    /\ IdleStore
    /\ IdleDriver
    /\ IdleAux

\* extract_text_from_file, lines 45-69: the temporary file, file_ext, and the
\* dispatch on it.  Writing the temporary file can raise.
ExtractStart(ext, fails) ==
    /\ xpc = "idle"
    /\ file_ext' = ext
    /\ tried' = <<>>
    /\ IF fails
       THEN /\ xpc' = "except"
            /\ xtext' = <<>>
       ELSE IF ext = "txt" THEN xpc' = "_extract_txt" /\ xtext' = <<>>
       ELSE IF ext = "pdf" THEN xpc' = "pdfplumber" /\ xtext' = <<>>
       ELSE IF ext = "docx" THEN xpc' = "python-docx" /\ xtext' = <<>>
       ELSE IF ext \in {"jpg", "jpeg", "png", "bmp"} THEN xpc' = "_extract_image" /\ xtext' = <<>>
       ELSE xpc' = "cleanup" /\ xtext' = UnsupportedMsg(ext)
    /\ UNCHANGED <<chunkVars, envVars, limitVars, csvioVars, min_words, is_valid,
                   runVars, storeVars, driverVars>>

\* _extract_txt
ExtractTxt(o, c, e) ==
    /\ xpc = "_extract_txt"
    /\ xtext' = CASE o = "read" -> c
                  [] o = "undecodable" -> TxtDecodeMsg
                  [] o = "raised" -> TxtErrorMsg(e)
    /\ tried' = Append(tried, Attempt("open", o, <<>>))
    /\ xpc' = "cleanup"
    /\ UNCHANGED <<chunkVars, envVars, limitVars, csvioVars, file_ext, min_words, is_valid,
                   runVars, storeVars, driverVars>>

\* _extract_pdf, lines 104-120: text = "" and the pdfplumber attempt.
PdfPlumber(o) ==
    /\ xpc = "pdfplumber"
    /\ LET own == PagesText(o.withText, o.read)
           t == <<>> \o own
       IN IF ~o.avail
          THEN /\ xtext' = <<>>
               /\ tried' = Append(tried, Attempt("pdfplumber", "missing", <<>>))
               /\ xpc' = "PyPDF2"
          ELSE IF o.raises
          THEN /\ xtext' = t
               /\ tried' = Append(tried, Attempt("pdfplumber", "raised", <<>>))
               /\ xpc' = "PyPDF2"
          ELSE IF t # <<>>
          THEN /\ xtext' = t
               /\ tried' = Append(tried, Attempt("pdfplumber", "text", own))
               /\ xpc' = "cleanup"
          ELSE /\ xtext' = t
               /\ tried' = Append(tried, Attempt("pdfplumber", "empty", <<>>))
               /\ xpc' = "PyPDF2"
    /\ UNCHANGED <<chunkVars, envVars, limitVars, csvioVars, file_ext, min_words, is_valid,
                   runVars, storeVars, driverVars>>

\* _extract_pdf, lines 122-142: the PyPDF2 attempt, which goes on adding to
\* the same `text`, and the message when nothing was returned.
PyPdf2(o) ==
    /\ xpc = "PyPDF2"
    /\ LET own == PagesText(o.withText, o.read)
           t == xtext \o own
       IN IF ~o.avail
          THEN /\ xtext' = PdfGuidance
               /\ tried' = Append(tried, Attempt("PyPDF2", "missing", <<>>))
          ELSE IF o.raises
          THEN /\ xtext' = PdfGuidance
               /\ tried' = Append(tried, Attempt("PyPDF2", "raised", <<>>))
          ELSE IF t # <<>>
          THEN /\ xtext' = t
               /\ tried' = Append(tried, Attempt("PyPDF2", IF own # <<>> THEN "text" ELSE "empty", own))
          ELSE /\ xtext' = PdfGuidance
               /\ tried' = Append(tried, Attempt("PyPDF2", "empty", <<>>))
    /\ xpc' = "cleanup"
    /\ UNCHANGED <<chunkVars, envVars, limitVars, csvioVars, file_ext, min_words, is_valid,
                   runVars, storeVars, driverVars>>

\* _extract_docx, lines 147-157: python-docx; c is the join of the non-blank
\* paragraphs.
PythonDocx(o, c) ==
    /\ xpc = "python-docx"
    /\ IF o = "completed" /\ c # <<>>
       THEN /\ xtext' = c
            /\ tried' = Append(tried, Attempt("python-docx", "text", c))
            /\ xpc' = "cleanup"
       ELSE /\ xtext' = <<>>
            /\ tried' = Append(tried, Attempt("python-docx",
                                   IF o = "completed" THEN "empty" ELSE o, <<>>))
            /\ xpc' = "docx2txt"
    /\ UNCHANGED <<chunkVars, envVars, limitVars, csvioVars, file_ext, min_words, is_valid,
                   runVars, storeVars, driverVars>>

\* _extract_docx, lines 159-173: docx2txt, and the message when nothing was
\* returned.
Docx2txt(o, c) ==
    /\ xpc = "docx2txt"
    /\ IF o = "completed" /\ c # <<>>
       THEN /\ xtext' = c
            /\ tried' = Append(tried, Attempt("docx2txt", "text", c))
       ELSE /\ xtext' = DocxGuidance
            /\ tried' = Append(tried, Attempt("docx2txt",
                                   IF o = "completed" THEN "empty" ELSE o, <<>>))
    /\ xpc' = "cleanup"
    /\ UNCHANGED <<chunkVars, envVars, limitVars, csvioVars, file_ext, min_words, is_valid,
                   runVars, storeVars, driverVars>>

\* _extract_image: c is what the first OCR strategy with a non-blank result
\* returned.
ExtractImage(o, c, e) ==
    /\ xpc = "_extract_image"
    /\ o = "text" => Strip(c) # <<>>
    /\ xtext' = CASE o = "unavailable" -> OcrUnavailableMsg
                  [] o = "text" -> c
                  [] o = "none" -> NoTextDetectedMsg
                  [] o = "raised" -> OcrErrorMsg(e)
    /\ tried' = Append(tried, Attempt("pytesseract", o, <<>>))
    /\ xpc' = "cleanup"
    /\ UNCHANGED <<chunkVars, envVars, limitVars, csvioVars, file_ext, min_words, is_valid,
                   runVars, storeVars, driverVars>>

\* A plausible slip: the stripped text is returned whatever it is.
ExtractReturnNoFallback(fails) ==
    /\ xpc = "cleanup"
    /\ IF fails
       THEN xpc' = "except" /\ xtext' = xtext
       ELSE xpc' = "returned" /\ xtext' = Strip(xtext)
    /\ UNCHANGED <<chunkVars, envVars, limitVars, csvioVars, file_ext, tried, min_words,
                   is_valid, runVars, storeVars, driverVars>>

\* extract_text_from_file, lines 71-78: the temporary file is removed, which
\* can raise, and the stripped text or the "no text" message is returned.
ExtractReturn(fails) ==
    /\ xpc = "cleanup"
    /\ IF fails
       THEN xpc' = "except" /\ xtext' = xtext
       ELSE /\ xpc' = "returned"
            /\ xtext' = IF Strip(xtext) # <<>> THEN Strip(xtext) ELSE NoTextExtractedMsg
    /\ UNCHANGED <<chunkVars, envVars, limitVars, csvioVars, file_ext, tried, min_words,
                   is_valid, runVars, storeVars, driverVars>>

\* extract_text_from_file, lines 80-82: except Exception as e
ExtractExcept(e) ==
    /\ xpc = "except"
    /\ xtext' = ExtractionErrorMsg(e)
    /\ xpc' = "returned"
    /\ UNCHANGED <<chunkVars, envVars, limitVars, csvioVars, file_ext, tried, min_words,
                   is_valid, runVars, storeVars, driverVars>>

\* re.search of one pattern of error_patterns: a literal, or a literal, `.*`
\* and a second literal; `.` does not match "\n", case is ignored.
MatchAt(t, i, lit) ==
    /\ i + Len(lit) - 1 <= Len(t)
    /\ \A k \in 1..Len(lit) : Lower(t[i + k - 1]) = Lower(lit[k])

Search(p, t) ==
    \E i \in 1..Len(t) :
        /\ MatchAt(t, i, p.head)
        /\ \/ p.tail = <<>>
           \/ \E j \in (i + Len(p.head))..Len(t) :
                /\ MatchAt(t, j, p.tail)
                /\ \A k \in (i + Len(p.head))..(j - 1) : t[k] # "\n"

Pattern(h, tl) == [head |-> h, tail |-> tl]

\* A plausible slip: only the patterns that begin with an emoji.
ErrorPatternsEmojiOnly ==
    {Pattern(<<Prohibited>>, <<"error">>),
     Pattern(<<PageFacingUp>>, <<"install">>),
     Pattern(<<Clipboard>>, <<"install">>),
     Pattern(<<Magnifier>>, Sp(<<"not", "available">>)),
     Pattern(<<EmptyMailbox>>, Sp(<<"no", "text">>))}

error_patterns ==
    {Pattern(<<Prohibited>>, <<"error">>),
     Pattern(<<PageFacingUp>>, <<"install">>),
     Pattern(<<Clipboard>>, <<"install">>),
     Pattern(<<Magnifier>>, Sp(<<"not", "available">>)),
     Pattern(<<EmptyMailbox>>, Sp(<<"no", "text">>)),
     Pattern(<<"Install">>, <<"pip">>),
     Pattern(Sp(<<"not", "available">>), <<>>),
     Pattern(Sp(<<"extraction", "error">>), <<>>),
     Pattern(Sp(<<"no", "text">>), <<>>),
     Pattern(Sp(<<"unsupported", "file">>), <<>>),
     Pattern(Sp(<<"OCR", "Error">>), <<>>),
     Pattern(Sp(<<"TXT", "reading", "error">>), <<>>),
     Pattern(Sp(<<"PDF", "extraction", "error">>), <<>>)}

\* len(re.sub(r'[^\w\s]', '', text).split()): the runs of tokens between
\* whitespace that keep at least one word character.
CountWords(t) ==
    Cardinality({i \in 1..Len(t) :
        /\ t[i] \notin NonWordTokens
        /\ \A j \in 1..(i - 1) :
              t[j] \notin NonWordTokens => \E k \in (j + 1)..(i - 1) : IsWsTok(t[k])})

RECURSIVE CountAlpha(_, _)
CountAlpha(t, i) == IF i > Len(t) THEN 0 ELSE AlphaCount(t[i]) + CountAlpha(t, i + 1)

\* The first element of validate_extracted_text(t, mw).
validate_extracted_text(t, mw) ==
    IF t = <<>> \/ Strip(t) = <<>> THEN FALSE
    ELSE IF \E p \in error_patterns : Search(p, t) THEN FALSE
    ELSE IF CountWords(t) < mw THEN FALSE
    ELSE IF CountAlpha(t, 1) < 10 THEN FALSE
    ELSE TRUE

\* validate_extracted_text applied to what extract_text_from_file returned.
Validate(mw) ==
    /\ xpc = "returned"
    /\ min_words' = mw
    /\ is_valid' = IF validate_extracted_text(xtext, mw) THEN "True" ELSE "False"
    /\ xpc' = "validated"
    /\ UNCHANGED <<chunkVars, envVars, limitVars, csvioVars, file_ext, xtext, tried,
                   runVars, storeVars, driverVars>>

NextExtract ==
    \/ \E ext \in FileExts, fails \in BOOLEAN : ExtractStart(ext, fails)
    \/ \E o \in {"read", "undecodable", "raised"}, c \in ContentTexts, e \in ExcTexts :
            ExtractTxt(o, c, e)
    \/ \E o \in PdfOutcomes : PdfPlumber(o)
    \/ \E o \in PdfOutcomes : PyPdf2(o)
    \/ \E o \in {"missing", "raised", "completed"}, c \in {<<>>, <<"lorem">>, Strip(LoremText)} :
            PythonDocx(o, c)
    \/ \E o \in {"missing", "raised", "completed"}, c \in ContentTexts : Docx2txt(o, c)
    \/ \E o \in {"unavailable", "text", "none", "raised"}, c \in ContentTexts, e \in ExcTexts :
            ExtractImage(o, c, e)
    \/ \E fails \in BOOLEAN : ExtractReturn(fails)
    \/ \E e \in ExcTexts : ExtractExcept(e)
    \/ \E mw \in 0..MaxMinWords : Validate(mw)

SpecExtract == InitExtract /\ [][NextExtract]_vars

-----------------------------------------------------------------------------
\* Properties of the extractor.

\* How many times the entry of page k occurs in t.
PageCount(t, k) ==
    Cardinality({i \in 1..Len(t) : i + 2 <= Len(t) /\ t[i] = "Page" /\ t[i + 2] = PageNum[k]})

\* _extract_pdf has returned (its result is in xtext).
PdfReturned == file_ext = "pdf" /\ xpc = "cleanup"

\* C27: the text _extract_pdf returns holds each page at most once, whatever
\* the two libraries did.
C27_NoPageTwice ==
    PdfReturned => \A k \in 1..MaxPages : PageCount(xtext, k) <= 1

\* _extract_pdf or _extract_docx has returned.
ProvidersReturned == file_ext \in {"pdf", "docx"} /\ xpc = "cleanup"

FirstProvider == IF file_ext = "pdf" THEN "pdfplumber" ELSE "python-docx"

SecondProvider == IF file_ext = "pdf" THEN "PyPDF2" ELSE "docx2txt"

Guidance == IF file_ext = "pdf" THEN PdfGuidance ELSE DocxGuidance

\* C22: the providers of a PDF or DOCX file are tried in their fixed order,
\* the second one exactly when the first was missing, raised or had no text;
\* the result is the text of the first provider that had some; the install
\* guidance is the result only when no provider had text.
C22_ProvidersInPriorityOrder ==
    ProvidersReturned
        => /\ Len(tried) \in 1..2
           /\ tried[1].provider = FirstProvider
           /\ Len(tried) = 2 => tried[2].provider = SecondProvider
           /\ Len(tried) = 2 <=> tried[1].outcome # "text"
           /\ \A i \in 1..Len(tried) :
                (tried[i].outcome = "text" /\ \A j \in 1..(i - 1) : tried[j].outcome # "text")
                    => xtext = tried[i].yield
           /\ xtext = Guidance => \A i \in 1..Len(tried) : tried[i].outcome # "text"

\* The values extract_text_from_file returns that are messages: those of the
\* helpers, stripped on the way out, its own three.
HelperMessages ==
    {TxtDecodeMsg, PdfGuidance, DocxGuidance, OcrUnavailableMsg, NoTextDetectedMsg}
    \cup {TxtErrorMsg(e) : e \in ExcTexts}
    \cup {OcrErrorMsg(e) : e \in ExcTexts}
    \cup {UnsupportedMsg(ext) : ext \in FileExts \ {"txt", "pdf", "docx", "jpg", "jpeg", "png", "bmp"}}

ErrorMessages ==
    {Strip(m) : m \in HelperMessages}
    \cup {NoTextExtractedMsg}
    \cup {ExtractionErrorMsg(e) : e \in ExcTexts}

\* C23: extract_text_from_file always returns, and what it returns is not
\* empty and is the extracted text, stripped, or one of the messages;
\* whatever raises on the way ends in the handler, which returns too.
C23_AlwaysReturnsText ==
    [][/\ xpc' \in {"idle", "_extract_txt", "pdfplumber", "PyPDF2", "python-docx", "docx2txt",
                    "_extract_image", "cleanup", "except", "returned", "validated"}
       /\ xpc = "except" => xpc' = "returned"
       /\ (xpc # "returned" /\ xpc' = "returned")
            => /\ xtext' # <<>>
               /\ \/ xtext' \in ErrorMessages
                  \/ xpc = "cleanup" /\ xtext' = Strip(xtext)]_vars

\* A document in which python-docx found no text and docx2txt only a line
\* break: the "no text" message is returned.
C23_Witness ==
    /\ xpc = "returned"
    /\ file_ext = "docx"
    /\ Len(tried) = 2
    /\ tried[2].yield = <<"\n">>
    /\ xtext = NoTextExtractedMsg

\* C30: validate_extracted_text rejects every message extract_text_from_file
\* can return, for every min_words >= 0.
C30_MessagesAreRejected ==
    (xpc = "validated" /\ xtext \in ErrorMessages) => is_valid = "False"

\* The "no text detected" message, which has eleven words and many letters,
\* checked with min_words = 0.
C30_Witness ==
    /\ xpc = "validated"
    /\ xtext = NoTextDetectedMsg
    /\ min_words = 0
    /\ is_valid = "False"

-----------------------------------------------------------------------------
\* save_embeddings_csv as characters on disk, and the table read back.  A
\* float is counted in halves (3 stands for 1.5), which repr() writes with one
\* decimal; the file is a sequence of characters.

MaxFieldLen == 2

\* How many segments, and how many embeddings, a call is given.
PairCounts == {0, 1, 2}

CsvChars == {"a", ",", "\"", "\n"}

CsvTexts == UNION {[1..n -> CsvChars] : n \in 0..MaxFieldLen}

Vectors == {<<-3, 2>>, <<0, 1>>}

Digit == <<"0", "1", "2", "3", "4", "5", "6", "7", "8", "9">>

Abs(v) == IF v < 0 THEN -v ELSE v

\* repr(x) of a Python float
FormatFloat(v) ==
    (IF v < 0 THEN <<"-">> ELSE <<>>)
        \o <<Digit[(Abs(v) \div 2) + 1], ".", IF Abs(v) % 2 = 1 THEN "5" ELSE "0">>

\* str(emb.tolist()): "[x1, x2, ...]"
RECURSIVE FormatItems(_, _)
FormatItems(vec, i) ==
    IF i > Len(vec) THEN <<>>
    ELSE (IF i > 1 THEN <<",", " ">> ELSE <<>>) \o FormatFloat(vec[i]) \o FormatItems(vec, i + 1)

FormatList(vec) == <<"[">> \o FormatItems(vec, 1) \o <<"]">>

RECURSIVE DoubleQuotes(_, _)
DoubleQuotes(f, i) ==
    IF i > Len(f) THEN <<>>
    ELSE (IF f[i] = "\"" THEN <<"\"", "\"">> ELSE <<f[i]>>) \o DoubleQuotes(f, i + 1)

NeedsQuote(f) == \E i \in 1..Len(f) : f[i] \in {",", "\"", "\n"}

\* A plausible slip: a quoted field whose quotes are not doubled.
QuoteFieldNoDoubling(f) == IF NeedsQuote(f) THEN <<"\"">> \o f \o <<"\"">> ELSE f

\* One field as csv.writer writes it (QUOTE_MINIMAL, doublequote).
QuoteField(f) == IF NeedsQuote(f) THEN <<"\"">> \o DoubleQuotes(f, 1) \o <<"\"">> ELSE f

TextCol == <<"t", "e", "x", "t">>

EmbeddingCol == <<"e", "m", "b", "e", "d", "d", "i", "n", "g">>

ColChars(name) == IF name = "text" THEN TextCol ELSE EmbeddingCol

CsvLine(f1, f2) == QuoteField(f1) \o <<",">> \o QuoteField(f2) \o <<"\n">>

RECURSIVE CsvLines(_, _)
CsvLines(rows, i) ==
    IF i > Len(rows) THEN <<>>
    ELSE CsvLine(rows[i][1], FormatList(rows[i][2])) \o CsvLines(rows, i + 1)

\* The characters df.to_csv(output_path, index=False) writes.
to_csv(table) ==
    CsvLine(ColChars(table.header[1]), ColChars(table.header[2])) \o CsvLines(table.rows, 1)

\* Reading the file back: records, fields, quotes.
RECURSIVE ParseCsvFrom(_, _, _)
ParseCsvFrom(s, i, st) ==
    IF i > Len(s)
    THEN IF st.field = <<>> /\ st.row = <<>> THEN st.rows
         ELSE Append(st.rows, Append(st.row, st.field))
    ELSE IF st.q
    THEN IF s[i] = "\""
         THEN IF i < Len(s) /\ s[i + 1] = "\""
              THEN ParseCsvFrom(s, i + 2, [st EXCEPT !.field = Append(@, "\"")])
              ELSE ParseCsvFrom(s, i + 1, [st EXCEPT !.q = FALSE])
         ELSE ParseCsvFrom(s, i + 1, [st EXCEPT !.field = Append(@, s[i])])
    ELSE IF s[i] = "\"" THEN ParseCsvFrom(s, i + 1, [st EXCEPT !.q = TRUE])
    ELSE IF s[i] = ","
         THEN ParseCsvFrom(s, i + 1, [st EXCEPT !.row = Append(@, st.field), !.field = <<>>])
    ELSE IF s[i] = "\n"
         THEN ParseCsvFrom(s, i + 1, [st EXCEPT !.rows = Append(@, Append(st.row, st.field)),
                                                !.row = <<>>, !.field = <<>>])
    ELSE ParseCsvFrom(s, i + 1, [st EXCEPT !.field = Append(@, s[i])])

ParseCsv(s) == ParseCsvFrom(s, 1, [q |-> FALSE, field |-> <<>>, row |-> <<>>, rows |-> <<>>])

DigitVal(ch) == CHOOSE d \in 0..9 : Digit[d + 1] = ch

\* float("d.d") or float("-d.d"), in halves.
ParseFloat(cs) ==
    LET neg == cs[1] = "-"
        body == IF neg THEN Tail(cs) ELSE cs
        halves == 2 * DigitVal(body[1]) + (IF body[3] = "5" THEN 1 ELSE 0)
    IN IF neg THEN -halves ELSE halves

\* The items of "x1, x2, ..." between the brackets.
RECURSIVE ParseItems(_, _, _)
ParseItems(s, i, cur) ==
    IF i > Len(s) THEN (IF cur = <<>> THEN <<>> ELSE <<ParseFloat(cur)>>)
    ELSE IF s[i] = "," THEN <<ParseFloat(cur)>> \o ParseItems(s, i + 1, <<>>)
    ELSE IF s[i] = " " THEN ParseItems(s, i + 1, cur)
    ELSE ParseItems(s, i + 1, Append(cur, s[i]))

ParseList(f) == ParseItems(SubSeq(f, 2, Len(f) - 1), 1, <<>>)

\* The table read back from the characters of the file.
LoadCsv(s) ==
    LET recs == ParseCsv(s)
    IN [header |-> recs[1],
        rows |-> [i \in 1..(Len(recs) - 1) |-> <<recs[i + 1][1], ParseList(recs[i + 1][2])>>]]

InitCsv ==
    /\ \E n \in PairCounts, m \in PairCounts :
          /\ segments \in [1..n -> CsvTexts]
          /\ embeddings \in [1..m -> Vectors]
    /\ rpc = "save"
    /\ csvText = <<>>
    /\ loaded = [header |-> <<>>, rows |-> <<>>]
    /\ error = "none"
    /\ csv = [p \in CsvPaths |-> NoFile]
    /\ dirs = UNION {Ancestors(p.parent) : p \in TextPaths}
    /\ textPath = NoPath
    /\ csvArg = NoPath
    /\ outPath = NoPath
    /\ replaced = NoFile
    /\ runs = 0
    /\ modelLoads = 0
    /\ encodeCalls = 0
    /\ modelName = NoModel
    /\ csvModel = [p \in CsvPaths |-> NoModel]
    /\ text = <<>>
    /\ chunk_size = 400
    /\ overlap = 50
    /\ words = <<>>
    /\ start = 0
    /\ chunks = <<>>
    /\ starts = <<>>
    /\ pc = "idle"
    /\ hasST = TRUE
    /\ loadable = TRUE
    /\ encodable = TRUE
    /\ writable \in BOOLEAN
    /\ installed = Engines
    /\ limit = 0
    /\ current = <<>>
    /\ widx = 0
    /\ file_ext = "none"
    /\ xtext = <<>>
    /\ xpc = "idle"
    /\ tried = <<>>
    /\ min_words = 0
    /\ is_valid = "none"
    /\ IdleStore
    /\ IdleDriver

\* save_embeddings_csv(text_segments, embeddings, output_path), down to the
\* characters of the file.
SaveEmbeddingsCsv(path) ==
    /\ rpc = "save"
    /\ csvText = <<>>
    /\ LET built == SaveOutcome(segments, embeddings)
           outcome == IF built # "ValueError" /\ ~writable THEN "OSError" ELSE built
       IN /\ outPath' = path
          /\ IF outcome \in {"ValueError", "OSError"}
             THEN UNCHANGED <<csv, dirs, replaced, csvText>>
             ELSE /\ dirs' = dirs \cup Ancestors(path.parent)
                  /\ csv' = ToCsv(csv, path, CsvTable(segments, embeddings))
                  /\ csvText' = to_csv(CsvTable(segments, embeddings))
                  /\ replaced' = csv[path]
          /\ error' = outcome
          /\ rpc' = IF outcome = "none" THEN "done" ELSE "raised"
    /\ UNCHANGED <<chunkVars, envVars, limitVars, extractVars, loaded, storeVars, driverVars,
                   textPath, csvArg, segments, embeddings, runs, modelLoads, encodeCalls,
                   modelName, csvModel>>

\* The file that was written is read back.
LoadTable ==
    /\ rpc \in {"done", "raised"}
    /\ csvText # <<>>
    /\ loaded' = LoadCsv(csvText)
    /\ rpc' = "loaded"
    /\ UNCHANGED <<chunkVars, envVars, limitVars, extractVars, csvText, storeVars, driverVars,
                   csv, dirs, textPath, csvArg, segments, embeddings, outPath, error, replaced,
                   runs, modelLoads, encodeCalls, modelName, csvModel>>

NextCsv ==
    \/ \E path \in CsvPaths : SaveEmbeddingsCsv(path)
    \/ LoadTable

SpecCsv == InitCsv /\ [][NextCsv]_vars

\* C21: the table read back from what save_embeddings_csv wrote for N pairs
\* has the columns text and embedding and N rows, row i holding text i and
\* embedding i.
C21_RoundTrip ==
    rpc = "loaded"
        => /\ loaded.header = <<TextCol, EmbeddingCol>>
           /\ Len(loaded.rows) = Len(segments)
           /\ Len(segments) = Len(embeddings)
           /\ \A i \in 1..Len(segments) : loaded.rows[i] = <<segments[i], embeddings[i]>>

\* Two pairs read back, the first text holding a quote and a comma, the
\* second a line break, the first embedding a negative number.
C21_Witness ==
    /\ rpc = "loaded"
    /\ Len(segments) = 2
    /\ segments[1] = <<"\"", ",">>
    /\ segments[2] = <<"a", "\n">>
    /\ embeddings[1] = <<-3, 2>>
    /\ Len(loaded.rows) = 2

====
